---- MODULE Spec2Model ----
(***************************************************************************)
(* The diagram editor of diagrams-generating-app as a state machine.       *)
(*                                                                         *)
(* The state is the React state of DiagramEditorInternal (nodes, edges,    *)
(* selectedEdgeType), the module-level nodeIdCounter, the millisecond      *)
(* clock read by onConnect, and the state of the label editor component    *)
(* mounted for each node and edge (isEditing, editValue), kept with the    *)
(* element the component is rendered for.  readOnly is the editor's prop,   *)
(* notified the arguments of the last call of its onChange callback, and   *)
(* uncaught whether an event handler has thrown.                           *)
(*                                                                         *)
(* Strings are sequences of characters; a word that is never split is one  *)
(* character ("New", "Actor", "include").  " " is the blank.               *)
(***************************************************************************)
EXTENDS Naturals, Sequences, FiniteSets

VARIABLES nodes, edges, nodeIdCounter, selectedEdgeType, now,
          readOnly, notified, uncaught,
          workflowState, conversation, diagram, approvedContext,
          inFlight, left,
          writes, stored,
          users, diagrams, messages, response

\* The state of the editor, and the state of the generation workflow.
editor == <<nodes, edges, nodeIdCounter, selectedEdgeType, now,
            readOnly, notified, uncaught, writes, stored>>

\* The states of the diagram handed to the store, and the content stored.
persistence == <<writes, stored>>

\* The rows of the tables users, diagrams and messages, and the response
\* to the last webhook request.
database == <<users, diagrams, messages, response>>

workflow == <<workflowState, conversation, diagram, approvedContext>>

\* The generation requests the collaborator has not settled, and whether the
\* user has navigated away from the diagram.
generation == <<inFlight, left>>

vars == <<nodes, edges, nodeIdCounter, selectedEdgeType, now,
          readOnly, notified, uncaught,
          workflowState, conversation, diagram, approvedContext,
          inFlight, left,
          writes, stored,
          users, diagrams, messages, response>>

\* ------------------------------------------------------------------ bounds
MaxNodes == 2
MaxEdges == 1
MaxNodeIds == 3
MaxClock == 2
MaxLabelNodes == 1
MaxLabelEdges == 1
MaxMessages == 7
MaxRows == 1
MaxInitialNodes == 2
MaxIdEdges == 2

\* ------------------------------------------------------------- sequences
RECURSIVE SelectSeqBy(_, _)
\* Array.prototype.filter with the predicate given as a set of kept indices.
SelectSeqBy(s, keep) ==
    IF s = <<>> THEN <<>>
    ELSE LET rest == SelectSeqBy(Tail(s), {i - 1 : i \in keep \ {1}})
         IN  IF 1 \in keep THEN <<Head(s)>> \o rest ELSE rest

\* ---------------------------------------------------------------- strings
Blank == " "

RECURSIVE TrimStart(_)
TrimStart(s) ==
    IF s # <<>> /\ Head(s) = Blank THEN TrimStart(Tail(s)) ELSE s

RECURSIVE TrimEnd(_)
TrimEnd(s) ==
    IF s # <<>> /\ s[Len(s)] = Blank THEN TrimEnd(SubSeq(s, 1, Len(s) - 1)) ELSE s

\* String.prototype.trim()
Trim(s) == TrimEnd(TrimStart(s))

\* `«${type}»`
Guillemets(type) == <<"«", type, "»">>

\* type.charAt(0).toUpperCase() + type.slice(1)
Capitalize(type) ==
    CASE type = "actor"   -> <<"Actor">>
      [] type = "usecase" -> <<"Usecase">>
      [] type = "system"  -> <<"System">>
      [] OTHER            -> <<"Other">>

\* An optional value: <<>> when absent (undefined), <<v>> when present.
Absent == <<>>
Some(v) == <<v>>

\* ------------------------------------------------------------ node kinds
\* The handles rendered by ActorNode, UseCaseNode and SystemNode; a type with
\* no registered component renders none of them.
\* A faulty variant: the actor given the handles of the use case.
HandlesForFourSides(type) ==
    CASE type \in {"actor", "usecase"} ->
           {"left-source", "left-target", "right-source", "right-target",
            "top-source", "top-target", "bottom-source", "bottom-target"}
      [] type = "system" ->
           {"left-source", "left-target", "right-source", "right-target"}
      [] OTHER -> {}

HandlesFor(type) ==
    CASE type = "actor" ->
           {"right-source", "right-target", "left-source", "left-target"}
      [] type = "usecase" ->
           {"left-source", "left-target", "right-source", "right-target",
            "top-source", "top-target", "bottom-source", "bottom-target"}
      [] type = "system" ->
           {"left-source", "left-target", "right-source", "right-target"}
      [] OTHER -> {}

\* ---------------------------------------------------------------- palette
useCaseShapes ==
    { [type |-> "actor",   category |-> "nodes", defaultData |-> Some(<<"Actor">>)],
      [type |-> "usecase", category |-> "nodes", defaultData |-> Some(<<"Use", " ", "Case">>)],
      [type |-> "system",  category |-> "nodes", defaultData |-> Some(<<"System">>)] }

useCaseConnections ==
    { [type |-> "association", category |-> "edges", defaultData |-> Absent],
      [type |-> "dependency",  category |-> "edges", defaultData |-> Absent] }

\* What getData returns when nothing was set: the empty string, which is no JSON.
NoPayload == [type |-> "", json |-> FALSE, label |-> Absent]

\* A faulty variant: drag data is set for a connection shape too.
handleDragStartOfAnyShape(shape) ==
    [type |-> shape.type, json |-> TRUE, label |-> shape.defaultData]

\* The drag data handleDragStart sets for a shape: the type tag and
\* JSON.stringify(shape.defaultData || {}).
handleDragStart(shape) ==
    IF shape.category # "nodes" THEN NoPayload
    ELSE [type |-> shape.type, json |-> TRUE, label |-> shape.defaultData]

DragPayloads == { handleDragStart(shape) : shape \in useCaseShapes \cup useCaseConnections }

\* ------------------------------------------------------------ edge labels
\* DependencyEdge: data?.label || (data?.type ? `«${data.type}»` : ''), and
\* AssociationEdge: data?.label; '' where no label editor is rendered.
DisplayLabel(e) ==
    IF e.label # Absent /\ e.label[1] # <<>> THEN e.label[1]
    ELSE IF e.type = "dependency" /\ e.dataType # Absent
         THEN Guillemets(e.dataType[1])
         ELSE <<>>

\* The EditableEdgeLabel of an edge is rendered only for a non-empty text;
\* a newly mounted one starts with useState(false), useState(value).
MountEdgeLabel(old, e) ==
    IF DisplayLabel(e) = <<>>
    THEN [e EXCEPT !.isEditing = FALSE, !.editValue = <<>>]
    ELSE IF DisplayLabel(old) = <<>>
         THEN [e EXCEPT !.isEditing = FALSE, !.editValue = DisplayLabel(e)]
         ELSE e

\* ---------------------------------------------------------------- onChange
\* The node and edge objects of the React state: the label editors' own
\* state (isEditing, editValue) is no part of them.
NodeObject(n) ==
    [id |-> n.id, type |-> n.type, position |-> n.position,
     label |-> n.label, selected |-> n.selected]

EdgeObject(e) ==
    [id |-> e.id, type |-> e.type, source |-> e.source, target |-> e.target,
     sourceHandle |-> e.sourceHandle, targetHandle |-> e.targetHandle,
     dataType |-> e.dataType, label |-> e.label, selected |-> e.selected]

\* onChange(nodes, edges)
onChangeArgs(ns, es) ==
    << [i \in DOMAIN ns |-> NodeObject(ns[i])],
       [i \in DOMAIN es |-> EdgeObject(es[i])] >>

\* A faulty variant: the effect with the dependencies [nodes, onChange].
useEffectOnNodes ==
    notified' = IF onChangeArgs(nodes', <<>>) # onChangeArgs(nodes, <<>>)
                THEN onChangeArgs(nodes', edges') ELSE notified

\* useEffect(() => { if (onChange) onChange(nodes, edges) }, [nodes, edges,
\* onChange]), run after the render that follows the handler.
useEffectOnChange ==
    IF nodes' = nodes /\ edges' = edges
    THEN notified' = notified
    ELSE LET args == onChangeArgs(nodes', edges')
         IN  notified' = IF args # onChangeArgs(nodes, edges) THEN args ELSE notified

\* The onChange the editor page passes: console.log of the two lengths,
\* "will sync to DB later".  Nothing is handed to the store.
EditorPageOnChange == UNCHANGED <<writes, stored>>

\* An event of the editor: its handler, then the render and its effect.
Editor(handler) ==
    /\ handler
    /\ useEffectOnChange
    /\ EditorPageOnChange
    /\ UNCHANGED <<readOnly, uncaught>>
    /\ UNCHANGED <<workflow, generation, database>>

\* An event of a control that is rendered, or a React Flow interaction that
\* is enabled, only while the editor is not read-only.
Editable(handler) ==
    /\ ~readOnly
    /\ Editor(handler)

\* ------------------------------------------------------------------- state
\* The editor mounted with no initial nodes and edges, not read-only; the
\* effect has run once.
\* A conversation just opened: nothing said, no diagram, nothing approved.
InitWorkflow ==
    /\ workflowState = "Drafting"
    /\ conversation = <<>>
    /\ diagram = <<>>
    /\ approvedContext = <<>>
    /\ inFlight = 0
    /\ left = FALSE
    /\ writes = <<>>
    /\ stored = [nodes |-> <<>>, edges |-> <<>>]
    /\ users = {}
    /\ diagrams = {}
    /\ messages = {}
    /\ response = [status |-> 0]

Init ==
    /\ nodes = <<>>
    /\ edges = <<>>
    /\ nodeIdCounter = 1
    /\ selectedEdgeType = "association"
    /\ now = 1
    /\ readOnly = FALSE
    /\ notified = onChangeArgs(nodes, edges)
    /\ uncaught = FALSE
    /\ InitWorkflow

NodeIds == { nodes[i].id : i \in DOMAIN nodes }

\* A faulty variant: the id counts the nodes of the diagram.
generateNodeIdByLength == Len(nodes) + 1

\* generateNodeId: `node_${nodeIdCounter++}`, the id modelled by its number.
generateNodeId == nodeIdCounter

\* ----------------------------------------------------------------- onDrop
\* A faulty variant: the new node put before the nodes of the diagram.
onDropPrepends(payload, position) ==
    IF payload.type = ""
    THEN UNCHANGED <<nodes, edges, nodeIdCounter, selectedEdgeType, now>>
    ELSE LET label   == IF payload.json /\ payload.label # Absent
                        THEN payload.label[1] ELSE Capitalize(payload.type)
             newNode == [id |-> generateNodeId, type |-> payload.type,
                         position |-> position, label |-> label,
                         selected |-> FALSE,
                         isEditing |-> FALSE, editValue |-> label]
         IN  /\ nodes' = <<newNode>> \o nodes
             /\ nodeIdCounter' = nodeIdCounter + 1
             /\ UNCHANGED <<edges, selectedEdgeType, now>>

\* The nodes after onDrop: the nodes there are if the payload has no type,
\* else those and a new node, whose label is the capitalised type unless the
\* data parses as JSON with a label of its own.
onDropNodes(payload, position) ==
    IF payload.type = ""
    THEN nodes
    ELSE LET default == Capitalize(payload.type)
             label   == IF payload.json /\ payload.label # Absent
                        THEN payload.label[1] ELSE default
             newNode == [id |-> generateNodeId, type |-> payload.type,
                         position |-> position, label |-> label,
                         selected |-> FALSE,
                         isEditing |-> FALSE, editValue |-> label]
         IN  Append(nodes, newNode)

onDrop(payload, position) ==
    /\ nodes' = onDropNodes(payload, position)
    /\ nodeIdCounter' = IF payload.type = "" THEN nodeIdCounter
                        ELSE nodeIdCounter + 1
    /\ UNCHANGED <<edges, selectedEdgeType, now>>

\* --------------------------------------------------------------- onConnect
\* addEdge of @xyflow/react: no edge for a connection that already exists
\* (same nodes and same handles); else the edge is appended.  A connection
\* made on the canvas always names its two nodes.
\* A faulty variant: a connection exists once its two nodes are connected.
connectionExistsAnyHandle(edge, eds) ==
    \E i \in DOMAIN eds :
        /\ eds[i].source = edge.source
        /\ eds[i].target = edge.target

connectionExists(edge, eds) ==
    \E i \in DOMAIN eds :
        /\ eds[i].source = edge.source
        /\ eds[i].target = edge.target
        /\ eds[i].sourceHandle = edge.sourceHandle
        /\ eds[i].targetHandle = edge.targetHandle

addEdge(edge, eds) ==
    IF connectionExists(edge, eds) THEN eds ELSE Append(eds, edge)

\* The edge onConnect builds from the connection: the connection's own
\* fields (...params), then id, type, markerEnd and data, which replace any
\* the connection carried: params.data, a dependency kind asked for by the
\* caller, is not read.
NewEdge(params) ==
    LET e == [id |-> now, type |-> selectedEdgeType,
              source |-> params.source, target |-> params.target,
              sourceHandle |-> params.sourceHandle,
              targetHandle |-> params.targetHandle,
              dataType |-> IF selectedEdgeType = "dependency"
                           THEN Some("include") ELSE Absent,
              label |-> Absent, selected |-> FALSE,
              isEditing |-> FALSE, editValue |-> <<>>]
    IN  [e EXCEPT !.editValue = DisplayLabel(e)]

\* setEdges((eds) => addEdge(newEdge, eds))
onConnectEdges(params) == addEdge(NewEdge(params), edges)

onConnect(params) ==
    /\ edges' = onConnectEdges(params)
    /\ UNCHANGED <<nodes, nodeIdCounter, selectedEdgeType, now>>

\* ------------------------------------------------------------- selection
\* React Flow's select changes, applied by onNodesChange and onEdgesChange.
selectNode(i) ==
    /\ nodes' = [nodes EXCEPT ![i].selected = ~nodes[i].selected]
    /\ UNCHANGED <<edges, nodeIdCounter, selectedEdgeType, now>>

selectEdge(i) ==
    /\ edges' = [edges EXCEPT ![i].selected = ~edges[i].selected]
    /\ UNCHANGED <<nodes, nodeIdCounter, selectedEdgeType, now>>

\* applyNodeChanges with a position change for the node id: the change is
\* applied to the nodes that have the id, and to none if there is none.
applyPosition(ns, nodeId, position) ==
    [j \in DOMAIN ns |->
        IF ns[j].id = nodeId THEN [ns[j] EXCEPT !.position = position] ELSE ns[j]]

\* React Flow's position change of a dragged node, applied by onNodesChange.
moveNode(i, position) ==
    /\ nodes' = applyPosition(nodes, nodes[i].id, position)
    /\ UNCHANGED <<edges, nodeIdCounter, selectedEdgeType, now>>

hasSelection ==
    \/ \E i \in DOMAIN nodes : nodes[i].selected
    \/ \E i \in DOMAIN edges : edges[i].selected

\* ---------------------------------------------------------------- delete
\* The toolbar's Delete button, rendered while something is selected.
handleDeleteSelected ==
    /\ hasSelection
    /\ nodes' = SelectSeqBy(nodes, {i \in DOMAIN nodes : ~nodes[i].selected})
    /\ edges' = SelectSeqBy(edges, {i \in DOMAIN edges : ~edges[i].selected})
    /\ UNCHANGED <<nodeIdCounter, selectedEdgeType, now>>

\* The Delete and Backspace keys (deleteKeyCode): React Flow removes the
\* selected nodes and edges and the edges connected to a removed node.
deleteKeyCode ==
    LET gone == { nodes[i].id : i \in {j \in DOMAIN nodes : nodes[j].selected} }
    IN  /\ hasSelection
        /\ nodes' = SelectSeqBy(nodes, {i \in DOMAIN nodes : ~nodes[i].selected})
        /\ edges' = SelectSeqBy(edges,
                       {i \in DOMAIN edges :
                           /\ ~edges[i].selected
                           /\ edges[i].source \notin gone
                           /\ edges[i].target \notin gone})
        /\ UNCHANGED <<nodeIdCounter, selectedEdgeType, now>>

\* ------------------------------------------------------ connection type
\* A faulty variant: the edges of the diagram are given the type selected.
setSelectedEdgeTypeOfEdges(shape) ==
    /\ selectedEdgeType' = shape.type
    /\ edges' = [j \in DOMAIN edges |-> [edges[j] EXCEPT !.type = shape.type]]
    /\ UNCHANGED <<nodes, nodeIdCounter, now>>

\* EdgeTypeSelector: a click on a connection shape.
setSelectedEdgeType(shape) ==
    /\ selectedEdgeType' = shape.type
    /\ UNCHANGED <<nodes, edges, nodeIdCounter, now>>

\* Date.now() moves on.
Tick ==
    /\ now < MaxClock
    /\ now' = now + 1
    /\ UNCHANGED <<nodes, edges, nodeIdCounter, selectedEdgeType,
                   readOnly, notified, uncaught>>
    /\ UNCHANGED <<workflow, generation, persistence, database>>

\* ------------------------------------------------------------ node label
\* EditableLabel of the node at position i: value is the node's data.label.
\* The label text is shown, and double-clickable, while not editing.
LabelDoubleClick(i) ==
    /\ ~nodes[i].isEditing
    /\ nodes' = [nodes EXCEPT ![i].editValue = nodes[i].label,
                              ![i].isEditing = TRUE]
    /\ UNCHANGED <<edges, nodeIdCounter, selectedEdgeType, now>>

\* The input's onChange: the buffer becomes the text of the input.
LabelChange(i, text) ==
    /\ nodes[i].isEditing
    /\ nodes' = [nodes EXCEPT ![i].editValue = text]
    /\ UNCHANGED <<edges, nodeIdCounter, selectedEdgeType, now>>

\* A faulty variant: the test of the edge label's handleSave.
LabelSaveCommitsEmpty(editValue, value) ==
    Trim(editValue) # value

\* handleSave's test: trimmedValue && trimmedValue !== value
LabelSaveCommits(editValue, value) ==
    Trim(editValue) # <<>> /\ Trim(editValue) # value

\* A faulty variant: where no node has the id, the last node is relabelled.
setNodeLabelOrLast(ns, nodeId, label) ==
    [j \in DOMAIN ns |->
        IF \/ ns[j].id = nodeId
           \/ (j = Len(ns) /\ \A k \in DOMAIN ns : ns[k].id # nodeId)
        THEN [ns[j] EXCEPT !.label = label] ELSE ns[j]]

\* nodes.map((node) => node.id === nodeId ? {...node, data: {...node.data,
\* label: trimmedValue}} : node)
setNodeLabel(ns, nodeId, label) ==
    [j \in DOMAIN ns |->
        IF ns[j].id = nodeId THEN [ns[j] EXCEPT !.label = label] ELSE ns[j]]

\* A faulty variant: the text is added to the label the node has.
handleSaveAppends(ns, i, editValue, value) ==
    LET commit == ~readOnly /\ LabelSaveCommits(editValue, value)
        saved == IF commit
                 THEN setNodeLabel(ns, ns[i].id, ns[i].label \o Trim(editValue))
                 ELSE ns
    IN  [saved EXCEPT ![i].isEditing = FALSE]

\* The nodes after handleSave of the EditableLabel of the node at position i,
\* called with the buffer and the value of the render it was made in.  Its
\* setNodes is React Flow's, which hands the changes to the editor's
\* onNodesChange: there is none while the editor is read-only.
handleSave(ns, i, editValue, value) ==
    LET commit == ~readOnly /\ LabelSaveCommits(editValue, value)
        saved == IF commit THEN setNodeLabel(ns, ns[i].id, Trim(editValue))
                 ELSE ns
    IN  [saved EXCEPT ![i].isEditing = FALSE]

\* handleSave, on Enter and on blur of the input.
LabelSave(i) ==
    LET n == nodes[i]
    IN  /\ n.isEditing
        /\ nodes' = handleSave(nodes, i, n.editValue, n.label)
        /\ UNCHANGED <<edges, nodeIdCounter, selectedEdgeType, now>>

\* handleSave called once more after the session was closed, by a commit or
\* by Escape, with the buffer and the value of the render after it.
LabelSaveAgain(i) ==
    LET n == nodes[i]
    IN  /\ ~n.isEditing
        /\ nodes' = handleSave(nodes, i, n.editValue, n.label)
        /\ UNCHANGED <<edges, nodeIdCounter, selectedEdgeType, now>>

\* handleSave of the EditableLabel of a node that is no longer in the
\* diagram, with the buffer and the value the component had.
LabelSaveUnmounted(nodeId, editValue, value) ==
    /\ nodeId \notin NodeIds
    /\ nodes' = IF ~readOnly /\ LabelSaveCommits(editValue, value)
                THEN setNodeLabel(nodes, nodeId, Trim(editValue)) ELSE nodes
    /\ UNCHANGED <<edges, nodeIdCounter, selectedEdgeType, now>>

\* A remove change that names a node no longer in the diagram.
removeNodeUnmounted(nodeId) ==
    /\ nodeId \notin NodeIds
    /\ nodes' = SelectSeqBy(nodes, {j \in DOMAIN nodes : nodes[j].id # nodeId})
    /\ UNCHANGED <<edges, nodeIdCounter, selectedEdgeType, now>>

\* A position change that names a node no longer in the diagram.
moveNodeUnmounted(nodeId, position) ==
    /\ nodeId \notin NodeIds
    /\ nodes' = applyPosition(nodes, nodeId, position)
    /\ UNCHANGED <<edges, nodeIdCounter, selectedEdgeType, now>>

\* A faulty variant: Escape leaves the session with the typed text as label.
LabelEscapeKeepsText(i) ==
    /\ nodes[i].isEditing
    /\ nodes' = [nodes EXCEPT ![i].label = nodes[i].editValue,
                              ![i].isEditing = FALSE]
    /\ UNCHANGED <<edges, nodeIdCounter, selectedEdgeType, now>>

\* Escape in the input.
LabelEscape(i) ==
    /\ nodes[i].isEditing
    /\ nodes' = [nodes EXCEPT ![i].editValue = nodes[i].label,
                              ![i].isEditing = FALSE]
    /\ UNCHANGED <<edges, nodeIdCounter, selectedEdgeType, now>>

\* ------------------------------------------------------------ edge label
\* EditableEdgeLabel of the edge at position i: value is the displayed text.
\* Its wrapper takes the double click, also while the input is shown.
EdgeLabelDoubleClick(i) ==
    /\ DisplayLabel(edges[i]) # <<>>
    /\ edges' = [edges EXCEPT ![i].editValue = DisplayLabel(edges[i]),
                              ![i].isEditing = TRUE]
    /\ UNCHANGED <<nodes, nodeIdCounter, selectedEdgeType, now>>

EdgeLabelChange(i, text) ==
    /\ edges[i].isEditing
    /\ edges' = [edges EXCEPT ![i].editValue = text]
    /\ UNCHANGED <<nodes, nodeIdCounter, selectedEdgeType, now>>

\* A faulty variant: handleSave stores the text whether it differs or not.
EdgeLabelSaveCommitsAlways(editValue, value) ==
    TRUE

\* handleSave's test: trimmedValue !== value
EdgeLabelSaveCommits(editValue, value) ==
    Trim(editValue) # value

\* edges.map((edge) => edge.id === edgeId ? {...edge, data: {...edge.data,
\* label: trimmedValue}} : edge)
setEdgeLabel(es, edgeId, label) ==
    [j \in DOMAIN es |->
        IF es[j].id = edgeId THEN [es[j] EXCEPT !.label = Some(label)] ELSE es[j]]

\* handleSave; its setEdges hands the changes to the editor's onEdgesChange.
EdgeLabelSave(i) ==
    LET e == edges[i]
        commit == ~readOnly /\ EdgeLabelSaveCommits(e.editValue, DisplayLabel(e))
        saved == IF commit THEN setEdgeLabel(edges, e.id, Trim(e.editValue))
                 ELSE edges
    IN  /\ e.isEditing
        /\ edges' = [j \in DOMAIN edges |->
                        MountEdgeLabel(edges[j],
                            IF j = i THEN [saved[j] EXCEPT !.isEditing = FALSE]
                            ELSE saved[j])]
        /\ UNCHANGED <<nodes, nodeIdCounter, selectedEdgeType, now>>

\* handleSave of the EditableEdgeLabel of an edge no longer in the diagram.
EdgeLabelSaveUnmounted(edgeId, editValue, value) ==
    /\ \A j \in DOMAIN edges : edges[j].id # edgeId
    /\ edges' = IF ~readOnly /\ EdgeLabelSaveCommits(editValue, value)
                THEN [j \in DOMAIN edges |->
                        MountEdgeLabel(edges[j],
                            setEdgeLabel(edges, edgeId, Trim(editValue))[j])]
                ELSE edges
    /\ UNCHANGED <<nodes, nodeIdCounter, selectedEdgeType, now>>

EdgeLabelEscape(i) ==
    /\ edges[i].isEditing
    /\ edges' = [edges EXCEPT ![i].editValue = DisplayLabel(edges[i]),
                              ![i].isEditing = FALSE]
    /\ UNCHANGED <<nodes, nodeIdCounter, selectedEdgeType, now>>

\* ------------------------------------------------------------------ inputs
\* Where a drop lands (screenToFlowPosition of the pointer), and where a
\* dragged node is left.
DropPosition == 0
Positions == {0, 1}

\* The node of the diagram with the given id.
NodeOf(id) == nodes[CHOOSE i \in DOMAIN nodes : nodes[i].id = id]

\* The handles a connection is made between.
SourceHandles == {"right-source", "top-source"}
TargetHandles == {"left-target", "top-target"}

\* A connection drawn on the canvas runs from a source handle rendered on
\* one node to a target handle rendered on a node, and carries no data.
CanvasConnections ==
    { c \in [source : NodeIds, target : NodeIds,
             sourceHandle : SourceHandles, targetHandle : TargetHandles,
             data : {Absent}] :
        /\ c.sourceHandle \in HandlesFor(NodeOf(c.source).type)
        /\ c.targetHandle \in HandlesFor(NodeOf(c.target).type) }

\* A connection handed to onConnect by any caller: the handle ids are
\* strings, and it may ask for a dependency kind in its data.
Connections ==
    [source : NodeIds, target : NodeIds,
     sourceHandle : SourceHandles, targetHandle : TargetHandles,
     data : {Absent, Some("extend")}]

\* The texts typed into a label input.
NodeTexts == { <<>>, <<" ", " ", " ">>, <<" ", "New", " ">> }
EdgeTexts == { <<>>, <<" ", "New", " ">>, <<" ", "«", "include", "»">> }

\* ----------------------------------------------------------- the editor
\* Editing the structure of the diagram.
Next ==
    \/ /\ Len(nodes) < MaxNodes
       /\ nodeIdCounter <= MaxNodeIds
       /\ Editor(\E payload \in DragPayloads : onDrop(payload, DropPosition))
    \/ \E params \in CanvasConnections :
          /\ Len(onConnectEdges(params)) <= MaxEdges
          /\ Editable(onConnect(params))
    \/ \E i \in DOMAIN nodes : Editable(selectNode(i))
    \/ \E i \in DOMAIN edges : Editable(selectEdge(i))
    \/ \E i \in DOMAIN nodes, position \in Positions : Editable(moveNode(i, position))
    \/ Editable(handleDeleteSelected)
    \/ Editable(deleteKeyCode)
    \/ \E shape \in useCaseConnections : Editable(setSelectedEdgeType(shape))
    \/ Tick

Spec == Init /\ [][Next]_vars

\* Building a diagram by drops and by calls of onConnect.
NextConnect ==
    \/ /\ Len(nodes) < MaxNodes
       /\ Editor(\E payload \in DragPayloads : onDrop(payload, DropPosition))
    \/ \E params \in Connections :
          /\ Len(onConnectEdges(params)) <= MaxEdges
          /\ Editable(onConnect(params))
    \/ \E shape \in useCaseConnections : Editable(setSelectedEdgeType(shape))

SpecConnect == Init /\ [][NextConnect]_vars

\* The input of an open session has the focus (the effect on isEditing
\* focuses it), and a pointer gesture anywhere else takes the focus away,
\* which runs onBlur = handleSave before the gesture's own handler; React
\* Flow's key handler ignores keys typed into an input.  So while a session
\* is open the next event is one of its input: a change, Enter, Escape, a
\* blur, or a double click inside it.
SessionOpen ==
    \/ \E i \in DOMAIN nodes : nodes[i].isEditing
    \/ \E i \in DOMAIN edges : edges[i].isEditing

\* Editing the labels of nodes.
NextNodeLabel ==
    \/ /\ ~SessionOpen
       /\ Len(nodes) < MaxNodes
       /\ Editor(\E payload \in DragPayloads : onDrop(payload, DropPosition))
    \/ \E i \in DOMAIN nodes : ~SessionOpen /\ Editor(LabelDoubleClick(i))
    \/ \E i \in DOMAIN nodes, text \in NodeTexts : Editor(LabelChange(i, text))
    \/ \E i \in DOMAIN nodes : Editor(LabelSave(i))
    \/ \E i \in DOMAIN nodes : Editor(LabelEscape(i))

SpecNodeLabel == Init /\ [][NextNodeLabel]_vars

\* Editing the labels of nodes, with commits that are repeated.
NextNodeLabelAgain ==
    \/ NextNodeLabel
    \/ \E i \in DOMAIN nodes : Editor(LabelSaveAgain(i))

SpecNodeLabelAgain == Init /\ [][NextNodeLabelAgain]_vars

\* Editing the labels of edges, drawn between the right and the left handle.
LabelConnections ==
    { c \in CanvasConnections :
        c.sourceHandle = "right-source" /\ c.targetHandle = "left-target" }

\* The nodes they are drawn between are use cases: an edge label is edited
\* the same way whatever the kinds of the nodes of the edge.
LabelPayloads == { p \in DragPayloads : p.type \in {"", "usecase"} }

NextEdgeLabel ==
    \/ /\ ~SessionOpen
       /\ Len(nodes) < MaxLabelNodes
       /\ Editor(\E payload \in LabelPayloads : onDrop(payload, DropPosition))
    \/ \E params \in LabelConnections :
          /\ ~SessionOpen
          /\ Len(onConnectEdges(params)) <= MaxLabelEdges
          /\ Editable(onConnect(params))
    \/ \E shape \in useCaseConnections :
          ~SessionOpen /\ Editable(setSelectedEdgeType(shape))
    \/ \E i \in DOMAIN edges :
          /\ ~SessionOpen \/ edges[i].isEditing
          /\ Editor(EdgeLabelDoubleClick(i))
    \/ \E i \in DOMAIN edges, text \in EdgeTexts : Editor(EdgeLabelChange(i, text))
    \/ \E i \in DOMAIN edges : Editor(EdgeLabelSave(i))
    \/ \E i \in DOMAIN edges : Editor(EdgeLabelEscape(i))
    \/ Tick

SpecEdgeLabel == Init /\ [][NextEdgeLabel]_vars

\* Editing the labels of nodes and edges.
NextLabel ==
    \/ NextEdgeLabel
    \/ \E i \in DOMAIN nodes : ~SessionOpen /\ Editor(LabelDoubleClick(i))
    \/ \E i \in DOMAIN nodes, text \in NodeTexts : Editor(LabelChange(i, text))
    \/ \E i \in DOMAIN nodes : Editor(LabelSave(i))
    \/ \E i \in DOMAIN nodes : Editor(LabelEscape(i))

SpecLabel == Init /\ [][NextLabel]_vars

\* ------------------------------------------------- the editor, mounted
\* A node and an edge of a diagram made in an earlier session, as they are
\* handed to the editor in initialNodes and initialEdges: the ids of its
\* nodes are ids generateNodeId gave then, the id of its edge an earlier
\* reading of the clock.
InitialNode(id, shape) ==
    [id |-> id, type |-> shape.type, position |-> DropPosition,
     label |-> shape.defaultData[1], selected |-> FALSE,
     isEditing |-> FALSE, editValue |-> shape.defaultData[1]]

InitialEdge(id, source, target) ==
    [id |-> id, type |-> "dependency", source |-> source, target |-> target,
     sourceHandle |-> "right-source", targetHandle |-> "left-target",
     dataType |-> Some("include"), label |-> Absent, selected |-> FALSE,
     isEditing |-> FALSE, editValue |-> Guillemets("include")]

InitialNodes ==
    {<<>>}
      \cup { <<InitialNode(id, shape)>> :
                id \in 1..MaxInitialNodes, shape \in useCaseShapes }
      \cup { <<InitialNode(id[1], shape), InitialNode(id[2], shape)>> :
                id \in { x \in (1..MaxInitialNodes) \X (1..MaxInitialNodes) : x[1] # x[2] },
                shape \in useCaseShapes }

InitialEdges(ns) ==
    {<<>>} \cup { <<InitialEdge(0, ns[i].id, ns[j].id)>> : i, j \in DOMAIN ns }

\* useNodesState(initialNodes), useEdgesState(initialEdges); nodeIdCounter is
\* a variable of the module, which every editor mounted before has advanced.
InitMount ==
    /\ nodes \in InitialNodes
    /\ edges \in InitialEdges(nodes)
    /\ nodeIdCounter \in 1..MaxInitialNodes
    /\ selectedEdgeType = "association"
    /\ now = 1
    /\ readOnly = FALSE
    /\ notified = onChangeArgs(nodes, edges)
    /\ uncaught = FALSE
    /\ InitWorkflow

\* Adding nodes to, and deleting from, the diagram the editor was mounted with.
NextMount ==
    \/ /\ Len(nodes) < MaxNodes
       /\ nodeIdCounter <= MaxNodeIds
       /\ Editor(\E payload \in DragPayloads : onDrop(payload, DropPosition))
    \/ \E i \in DOMAIN nodes : Editable(selectNode(i))
    \/ \E i \in DOMAIN edges : Editable(selectEdge(i))
    \/ Editable(handleDeleteSelected)
    \/ Editable(deleteKeyCode)

SpecMount == InitMount /\ [][NextMount]_vars

\* Connecting the nodes of a diagram more than once while the clock runs.
NextEdgeIds ==
    \/ /\ Len(nodes) < MaxNodes
       /\ Editor(\E payload \in DragPayloads : onDrop(payload, DropPosition))
    \/ \E params \in CanvasConnections :
          /\ Len(onConnectEdges(params)) <= MaxIdEdges
          /\ Editable(onConnect(params))
    \/ Tick

SpecEdgeIds == Init /\ [][NextEdgeIds]_vars

\* Events that name a node or an edge after it was deleted: what the label
\* editor of a deleted element had as value and may have in its buffer.
UnmountedNodeValues == { <<"Actor">>, <<"New">> }
UnmountedEdgeValues == { Guillemets("include"), <<"New">> }

NextUnmounted ==
    \/ /\ Len(nodes) < MaxNodes
       /\ nodeIdCounter <= MaxNodeIds
       /\ Editor(\E payload \in LabelPayloads : onDrop(payload, DropPosition))
    \/ \E params \in LabelConnections :
          /\ Len(onConnectEdges(params)) <= MaxEdges
          /\ Editable(onConnect(params))
    \/ \E i \in DOMAIN nodes : Editable(selectNode(i))
    \/ Editable(deleteKeyCode)
    \/ Tick
    \/ \E id \in 1..MaxNodeIds, text \in NodeTexts, value \in UnmountedNodeValues :
          Editor(LabelSaveUnmounted(id, text, value))
    \/ \E id \in 1..MaxNodeIds, position \in Positions :
          Editable(moveNodeUnmounted(id, position))
    \/ \E id \in 1..MaxNodeIds : Editable(removeNodeUnmounted(id))
    \/ \E id \in 0..MaxClock, text \in EdgeTexts, value \in UnmountedEdgeValues :
          Editor(EdgeLabelSaveUnmounted(id, text, value))

SpecUnmounted == Init /\ [][NextUnmounted]_vars

\* The editor mounted read-only or not, with the diagram of an earlier
\* session, and every event of the user.  The shapes sidebar is not rendered
\* while read-only: a payload dropped then was dragged from elsewhere.
TypedNodeTexts == { <<" ", "New", " ">> }
TypedEdgeTexts == { <<" ", "New", " ">> }

InitReadOnly ==
    /\ nodes \in { ns \in InitialNodes : \A i \in DOMAIN ns : ns[i].type = "usecase" /\ ns[i].id = i }
    /\ edges \in InitialEdges(nodes)
    /\ nodeIdCounter = MaxInitialNodes + 1
    /\ selectedEdgeType = "association"
    /\ now = 1
    /\ readOnly \in BOOLEAN
    /\ notified = onChangeArgs(nodes, edges)
    /\ uncaught = FALSE
    /\ InitWorkflow

NextReadOnly ==
    \/ /\ ~SessionOpen
       /\ Len(nodes) < MaxNodes
       /\ nodeIdCounter <= MaxNodeIds
       /\ Editor(\E payload \in LabelPayloads : onDrop(payload, DropPosition))
    \/ \E params \in LabelConnections :
          /\ ~SessionOpen
          /\ Len(onConnectEdges(params)) <= MaxEdges
          /\ Editable(onConnect(params))
    \/ \E i \in DOMAIN nodes : ~SessionOpen /\ Editable(selectNode(i))
    \/ \E i \in DOMAIN edges : ~SessionOpen /\ Editable(selectEdge(i))
    \/ \E i \in DOMAIN nodes, position \in Positions :
          ~SessionOpen /\ Editable(moveNode(i, position))
    \/ ~SessionOpen /\ Editable(handleDeleteSelected)
    \/ ~SessionOpen /\ Editable(deleteKeyCode)
    \/ \E i \in DOMAIN nodes : ~SessionOpen /\ Editor(LabelDoubleClick(i))
    \/ \E i \in DOMAIN nodes, text \in TypedNodeTexts : Editor(LabelChange(i, text))
    \/ \E i \in DOMAIN nodes : Editor(LabelSave(i))
    \/ \E i \in DOMAIN nodes : Editor(LabelEscape(i))
    \/ \E i \in DOMAIN edges :
          /\ ~SessionOpen \/ edges[i].isEditing
          /\ Editor(EdgeLabelDoubleClick(i))
    \/ \E i \in DOMAIN edges, text \in TypedEdgeTexts : Editor(EdgeLabelChange(i, text))
    \/ \E i \in DOMAIN edges : Editor(EdgeLabelSave(i))
    \/ \E i \in DOMAIN edges : Editor(EdgeLabelEscape(i))

SpecReadOnly == InitReadOnly /\ [][NextReadOnly]_vars

\* Every kind of change of the diagram: a node added, moved, relabelled and
\* deleted, an edge connected and deleted with its node.
NextOnChange ==
    \/ /\ ~SessionOpen
       /\ Len(nodes) < MaxLabelNodes
       /\ nodeIdCounter <= MaxNodeIds
       /\ Editor(\E payload \in LabelPayloads : onDrop(payload, DropPosition))
    \/ \E params \in LabelConnections :
          /\ ~SessionOpen
          /\ Len(onConnectEdges(params)) <= MaxLabelEdges
          /\ Editable(onConnect(params))
    \/ \E i \in DOMAIN nodes : ~SessionOpen /\ Editable(selectNode(i))
    \/ \E i \in DOMAIN nodes, position \in Positions :
          ~SessionOpen /\ Editable(moveNode(i, position))
    \/ ~SessionOpen /\ Editable(deleteKeyCode)
    \/ \E i \in DOMAIN nodes : ~SessionOpen /\ Editor(LabelDoubleClick(i))
    \/ \E i \in DOMAIN nodes, text \in TypedNodeTexts : Editor(LabelChange(i, text))
    \/ \E i \in DOMAIN nodes : Editor(LabelSave(i))

SpecOnChange == Init /\ [][NextOnChange]_vars

\* Editing the labels of two edges of either kind, drawn between two use
\* cases at one reading of the clock or at two.
NextEdgeLabels ==
    \/ /\ ~SessionOpen
       /\ Len(nodes) < MaxNodes
       /\ nodeIdCounter <= MaxNodes
       /\ Editor(\E payload \in LabelPayloads : onDrop(payload, DropPosition))
    \/ \E params \in LabelConnections :
          /\ ~SessionOpen
          /\ Len(onConnectEdges(params)) <= MaxIdEdges
          /\ Editable(onConnect(params))
    \/ \E shape \in useCaseConnections :
          ~SessionOpen /\ Editable(setSelectedEdgeType(shape))
    \/ \E i \in DOMAIN edges :
          /\ ~SessionOpen \/ edges[i].isEditing
          /\ Editor(EdgeLabelDoubleClick(i))
    \/ \E i \in DOMAIN edges, text \in EdgeTexts : Editor(EdgeLabelChange(i, text))
    \/ \E i \in DOMAIN edges : Editor(EdgeLabelSave(i))
    \/ \E i \in DOMAIN edges : Editor(EdgeLabelEscape(i))
    \/ Tick

SpecEdgeLabels == Init /\ [][NextEdgeLabels]_vars

\* What a drop on the canvas may carry: the drag data of a shape of the
\* palette, or the type tag of a node shape with data that is no JSON.
NotJson(shape) == [type |-> shape.type, json |-> FALSE, label |-> Absent]

DropPayloads == DragPayloads \cup { NotJson(shape) : shape \in useCaseShapes }

\* Dropping on the canvas, and deleting what was dropped.
NextDrop ==
    \/ /\ Len(nodes) < MaxNodes
       /\ nodeIdCounter <= MaxNodeIds
       /\ Editor(\E payload \in DropPayloads : onDrop(payload, DropPosition))
    \/ \E i \in DOMAIN nodes : Editable(selectNode(i))
    \/ Editable(handleDeleteSelected)
    \/ Editable(deleteKeyCode)

SpecDrop == Init /\ [][NextDrop]_vars

\* ------------------------------------------------------ the editor page
\* The diagram as it would be stored: the collections onChange was given last.
DiagramContent == [nodes |-> notified[1], edges |-> notified[2]]

\* Editing on the editor page while the clock moves on.
NextPersist ==
    \/ NextOnChange
    \/ Tick

SpecPersist == Init /\ [][NextPersist]_vars

\* ------------------------------------------------- the shapes sidebar
\* ShapeItem's onDoubleClick: shape.category === 'nodes' && onDoubleClick(shape),
\* which ShapesSidebar binds to onShapeAdd(s.type, s.defaultData || {}).  The
\* editor renders ShapesSidebar with selectedEdgeType and onEdgeTypeChange
\* only, so onShapeAdd is undefined and calling it throws a TypeError.
ShapeDoubleClick(shape) ==
    IF shape.category = "nodes"
    THEN /\ uncaught' = TRUE
         /\ UNCHANGED <<nodes, edges, nodeIdCounter, selectedEdgeType, now,
                        readOnly, notified>>
         /\ UNCHANGED <<workflow, generation, persistence, database>>
    ELSE UNCHANGED vars

\* Adding shapes from the sidebar, by dragging and by double-clicking.
NextPalette ==
    \/ /\ Len(nodes) < MaxNodes
       /\ nodeIdCounter <= MaxNodeIds
       /\ Editor(\E payload \in DragPayloads : onDrop(payload, DropPosition))
    \/ \E shape \in useCaseShapes \cup useCaseConnections :
          ~readOnly /\ ShapeDoubleClick(shape)
    \/ \E i \in DOMAIN nodes : Editable(selectNode(i))
    \/ Editable(deleteKeyCode)

SpecPalette == Init /\ [][NextPalette]_vars

\* ------------------------------------------------ the generation workflow
\* The content of a diagram: '{}' until a payload is applied.
EmptyContent == [nodes |-> <<>>, edges |-> <<>>]

PayloadNode(id, kind) == [id |-> id, kind |-> kind]

PayloadEdge(id, source, target) ==
    [id |-> id, sourceNodeId |-> source, targetNodeId |-> target,
     sourceHandleId |-> "right-source", targetHandleId |-> "top-target"]

\* The payloads the collaborator answers with: two well-formed ones, one with
\* an edge to a node that is not in it, one with a node id used twice, one
\* with an edge at a handle its node has not.
GenerationPayloads ==
    { [nodes |-> <<PayloadNode(1, "actor")>>, edges |-> <<>>],
      [nodes |-> <<PayloadNode(1, "actor"), PayloadNode(2, "usecase")>>,
       edges |-> <<PayloadEdge(1, 1, 2)>>],
      [nodes |-> <<PayloadNode(1, "actor")>>,
       edges |-> <<PayloadEdge(1, 1, 2)>>],
      [nodes |-> <<PayloadNode(1, "actor"), PayloadNode(1, "usecase")>>,
       edges |-> <<>>],
      [nodes |-> <<PayloadNode(1, "usecase"), PayloadNode(2, "actor")>>,
       edges |-> <<PayloadEdge(1, 1, 2)>>] }

\* validate: the invariants of the graph model a diagram violates.
validate(d) ==
    LET nodeOf(id) == CHOOSE i \in DOMAIN d.nodes : d.nodes[i].id = id
        known(id)  == \E i \in DOMAIN d.nodes : d.nodes[i].id = id
        handle(id, h) == known(id) => h \in HandlesFor(d.nodes[nodeOf(id)].kind)
    IN  (IF \E i, j \in DOMAIN d.nodes : i # j /\ d.nodes[i].id = d.nodes[j].id
         THEN {"node ids"} ELSE {})
        \cup
        (IF \E i, j \in DOMAIN d.edges : i # j /\ d.edges[i].id = d.edges[j].id
         THEN {"edge ids"} ELSE {})
        \cup
        (IF \E i \in DOMAIN d.edges :
               ~known(d.edges[i].sourceNodeId) \/ ~known(d.edges[i].targetNodeId)
         THEN {"references"} ELSE {})
        \cup
        (IF \E i \in DOMAIN d.edges :
               \/ ~handle(d.edges[i].sourceNodeId, d.edges[i].sourceHandleId)
               \/ ~handle(d.edges[i].targetNodeId, d.edges[i].targetHandleId)
         THEN {"handles"} ELSE {})

\* A row of the messages table; its id is its place in the conversation.
Message(id, role, content, status) ==
    [id |-> id, role |-> role, content |-> content, status |-> status]

appendMessage(role, content, status) ==
    Append(conversation, Message(Len(conversation) + 1, role, content, status))

Prompts == {"requirement", "refinement"}

\* Drafting: a submitted message is appended with the status PENDING.
submitMessage(content) ==
    /\ workflowState = "Drafting"
    /\ \A i \in DOMAIN conversation : conversation[i].status # "PENDING"
    /\ Len(conversation) + 2 <= MaxMessages
    /\ ~left
    /\ conversation' = appendMessage("USER", content, "PENDING")
    /\ UNCHANGED <<workflowState, diagram, approvedContext, inFlight, left>>

\* The reply of the assistant, its understanding and the structure it
\* proposes, is appended; the message it replies to becomes COMPLETED and the
\* proposal waits for the user.
assistantReplies ==
    /\ workflowState = "Drafting"
    /\ conversation # <<>>
    /\ conversation[Len(conversation)].status = "PENDING"
    /\ LET completed == [conversation EXCEPT ![Len(conversation)].status = "COMPLETED"]
       IN  conversation' =
              Append(completed,
                     Message(Len(conversation) + 1, "ASSISTANT", "proposal", "COMPLETED"))
    /\ ~left
    /\ workflowState' = "Confirming"
    /\ UNCHANGED <<diagram, approvedContext, inFlight, left>>

\* A faulty variant: the revision request taken for an approval.
requestRevisionGenerates ==
    /\ workflowState = "Confirming"
    /\ workflowState' = "Generating"
    /\ diagram' = IF diagram = Absent THEN Some(EmptyContent) ELSE diagram
    /\ inFlight' = inFlight + 1
    /\ ~left
    /\ UNCHANGED <<conversation, approvedContext, left>>

\* Confirming: the user asks for a revision, another round of messages.
requestRevision ==
    /\ workflowState = "Confirming"
    /\ ~left
    /\ workflowState' = "Drafting"
    /\ UNCHANGED <<conversation, diagram, approvedContext, inFlight, left>>

\* The workflow fails: an ASSISTANT message with the status FAILED tells why.
failed ==
    /\ workflowState' = "Failed"
    /\ conversation' = appendMessage("ASSISTANT", "problem", "FAILED")

\* Confirming: the user approves, which sends the generation request; the
\* diagram is created when the conversation first reaches Generating.  The
\* request may fail to be sent.
approve(sent) ==
    /\ workflowState = "Confirming"
    /\ Len(conversation) < MaxMessages
    /\ ~left
    /\ approvedContext' = Some(Len(conversation))
    /\ IF sent
       THEN /\ workflowState' = "Generating"
            /\ diagram' = IF diagram = Absent THEN Some(EmptyContent) ELSE diagram
            /\ inFlight' = inFlight + 1
            /\ UNCHANGED conversation
       ELSE /\ failed
            /\ UNCHANGED <<diagram, inFlight>>
    /\ UNCHANGED left

\* A faulty variant: of a payload that is not valid the nodes are kept.
generationRespondsKeepsNodes(payload) ==
    /\ workflowState = "Generating"
    /\ ~left
    /\ inFlight > 0
    /\ inFlight' = inFlight - 1
    /\ UNCHANGED left
    /\ IF validate(payload) = {}
       THEN /\ diagram' = Some(payload)
            /\ workflowState' = "Editing"
            /\ UNCHANGED conversation
       ELSE /\ diagram' = Some([nodes |-> payload.nodes, edges |-> <<>>])
            /\ failed
    /\ UNCHANGED approvedContext

\* Generating: the response is parsed as a payload and validated; a valid
\* one becomes the diagram, any other is rejected.
generationResponds(payload) ==
    /\ workflowState = "Generating"
    /\ ~left
    /\ inFlight > 0
    /\ inFlight' = inFlight - 1
    /\ UNCHANGED left
    /\ IF validate(payload) = {}
       THEN /\ diagram' = Some(payload)
            /\ workflowState' = "Editing"
            /\ UNCHANGED conversation
       ELSE /\ failed
            /\ UNCHANGED diagram
    /\ UNCHANGED approvedContext

\* A faulty variant: the failure message written over the last message.
generationErrorsOverwrites ==
    /\ workflowState = "Generating"
    /\ ~left
    /\ inFlight > 0
    /\ inFlight' = inFlight - 1
    /\ UNCHANGED left
    /\ workflowState' = "Failed"
    /\ conversation' =
          [conversation EXCEPT ![Len(conversation)] =
              Message(Len(conversation), "ASSISTANT", "problem", "FAILED")]
    /\ UNCHANGED <<diagram, approvedContext>>

\* Generating: the request errors or times out.
generationErrors ==
    /\ workflowState = "Generating"
    /\ ~left
    /\ inFlight > 0
    /\ inFlight' = inFlight - 1
    /\ failed
    /\ UNCHANGED <<diagram, approvedContext, left>>

\* Failed: the user retries with the context approved last.
retry ==
    /\ workflowState = "Failed"
    /\ Len(conversation) < MaxMessages
    /\ ~left
    /\ workflowState' = "Generating"
    /\ diagram' = IF diagram = Absent THEN Some(EmptyContent) ELSE diagram
    /\ inFlight' = inFlight + 1
    /\ UNCHANGED <<conversation, approvedContext, left>>

\* A faulty variant: the request is sent beside the outstanding one.
startGenerationSendsAgain ==
    /\ workflowState = "Generating"
    /\ ~left
    /\ inFlight' = inFlight + 1
    /\ UNCHANGED <<workflow, left>>

\* Generating: a request to start a generation while one is outstanding is
\* rejected by remaining in Generating.
startGeneration ==
    /\ workflowState = "Generating"
    /\ ~left
    /\ UNCHANGED <<workflow, generation>>

\* The user navigates away from the diagram: a request in flight is
\* abandoned, not awaited.
navigateAway ==
    /\ ~left
    /\ left' = TRUE
    /\ UNCHANGED <<workflow, inFlight>>

\* The collaborator settles an abandoned request, with a payload or with an
\* error: the response is ignored.
abandonedSettles ==
    /\ left
    /\ inFlight > 0
    /\ inFlight' = inFlight - 1
    /\ UNCHANGED <<workflow, left>>

NextWorkflow ==
    \/ \E content \in Prompts : submitMessage(content) /\ UNCHANGED <<editor, database>>
    \/ assistantReplies /\ UNCHANGED <<editor, database>>
    \/ requestRevision /\ UNCHANGED <<editor, database>>
    \/ \E sent \in BOOLEAN : approve(sent) /\ UNCHANGED <<editor, database>>
    \/ \E payload \in GenerationPayloads : generationResponds(payload) /\ UNCHANGED <<editor, database>>
    \/ generationErrors /\ UNCHANGED <<editor, database>>
    \/ retry /\ UNCHANGED <<editor, database>>
    \/ startGeneration /\ UNCHANGED <<editor, database>>
    \/ navigateAway /\ UNCHANGED <<editor, database>>
    \/ abandonedSettles /\ UNCHANGED <<editor, database>>

SpecWorkflow == Init /\ [][NextWorkflow]_vars

\* ------------------------------------------------------ the Clerk webhook
\* The ids Clerk gives its users and the addresses they have.
ClerkIds == {"user_1", "user_2"}
EmailAddresses == {"a@x", "b@x"}

\* The body of a request: the type of the event and its data.  The data of
\* an event about something else than a user, or of a deletion, need not
\* have email_addresses; where it has them one may be the primary address.
ClerkWebhookEvents ==
    [type : {"user.created", "user.updated", "user.deleted", "session.created"},
     id : ClerkIds,
     email_addresses : BOOLEAN,
     primaryEmail : {Absent} \cup { Some(a) : a \in EmailAddresses }]

\* The smallest number that is the id of no row.
FreshId(table) ==
    CHOOSE n \in 1..(Cardinality(table) + 1) :
       /\ \A row \in table : row.id # n
       /\ \A k \in 1..(n - 1) : \E row \in table : row.id = k

\* users_clerkId_key and users_email_key.
UniqueUsers(us) ==
    \A u, v \in us : u # v => u.clerkId # v.clerkId /\ u.email # v.email

Respond(status) == response' = [status |-> status]

\* The response when the handler throws, out of the catch.
Failed500 ==
    /\ Respond(500)
    /\ UNCHANGED <<users, diagrams, messages>>

\* prisma.user.create
userCreate(event) ==
    LET email == IF event.primaryEmail = Absent THEN "" ELSE event.primaryEmail[1]
        row == [id |-> FreshId(users), clerkId |-> event.id, email |-> email]
    IN  IF UniqueUsers(users \cup {row}) /\ Cardinality(users \cup {row}) > Cardinality(users)
        THEN /\ users' = users \cup {row}
             /\ UNCHANGED <<diagrams, messages>>
             /\ Respond(200)
        ELSE Failed500

\* prisma.user.update where clerkId: email: primaryEmail || undefined leaves
\* the email of the row as it is.
userUpdate(event) ==
    IF \E u \in users : u.clerkId = event.id
    THEN LET u == CHOOSE v \in users : v.clerkId = event.id
             row == IF event.primaryEmail = Absent THEN u
                    ELSE [u EXCEPT !.email = event.primaryEmail[1]]
             updated == (users \ {u}) \cup {row}
         IN  IF UniqueUsers(updated) /\ Cardinality(updated) = Cardinality(users)
             THEN /\ users' = updated
                  /\ UNCHANGED <<diagrams, messages>>
                  /\ Respond(200)
             ELSE Failed500
    ELSE Failed500

\* prisma.user.delete where clerkId, with ON DELETE CASCADE of
\* diagrams_userId_fkey and messages_diagramId_fkey.
userDelete(event) ==
    IF \E u \in users : u.clerkId = event.id
    THEN LET u == CHOOSE v \in users : v.clerkId = event.id
             kept == { d \in diagrams : d.userId # u.id }
         IN  /\ users' = users \ {u}
             /\ diagrams' = kept
             /\ messages' = { m \in messages : \E d \in kept : d.id = m.diagramId }
             /\ Respond(200)
    ELSE Failed500

\* The POST handler: data.email_addresses.find(...) before the switch throws
\* a TypeError where the data has no email_addresses.
POST(event) ==
    IF ~event.email_addresses
    THEN Failed500
    ELSE CASE event.type = "user.created" -> userCreate(event)
           [] event.type = "user.updated" -> userUpdate(event)
           [] event.type = "user.deleted" -> userDelete(event)
           [] OTHER -> /\ Respond(200)
                       /\ UNCHANGED <<users, diagrams, messages>>

\* A diagram of a user and a message of a diagram are inserted, as the
\* foreign keys allow.
insertDiagram ==
    /\ Cardinality(diagrams) < MaxRows
    /\ \E u \in users : diagrams' = diagrams \cup {[id |-> FreshId(diagrams), userId |-> u.id]}
    /\ UNCHANGED <<users, messages, response>>

insertMessage ==
    /\ Cardinality(messages) < MaxRows
    /\ \E d \in diagrams : messages' = messages \cup {[id |-> FreshId(messages), diagramId |-> d.id]}
    /\ UNCHANGED <<users, diagrams, response>>

NextWebhook ==
    \/ \E event \in ClerkWebhookEvents :
          (event.email_addresses \/ event.primaryEmail = Absent)
             /\ POST(event) /\ UNCHANGED <<editor, workflow, generation>>
    \/ insertDiagram /\ UNCHANGED <<editor, workflow, generation>>
    \/ insertMessage /\ UNCHANGED <<editor, workflow, generation>>

SpecWebhook == Init /\ [][NextWebhook]_vars

\* ================================================================ claims

\* ----------------------------------------------------------------------
\* C1: deleting the selected nodes, by the toolbar's Delete button or by the
\* Delete key, removes in the same step every edge whose source or target is
\* a deleted node, and besides these only the selected edges, so that no
\* edge is left pointing at a missing node.
C1_DeleteCascades ==
    [][ (handleDeleteSelected \/ deleteKeyCode) =>
           LET gone == { nodes[i].id : i \in {j \in DOMAIN nodes : nodes[j].selected} }
           IN  /\ nodes' = SelectSeqBy(nodes, {i \in DOMAIN nodes : ~nodes[i].selected})
               /\ edges' = SelectSeqBy(edges,
                              {i \in DOMAIN edges :
                                  /\ ~edges[i].selected
                                  /\ edges[i].source \notin gone
                                  /\ edges[i].target \notin gone}) ]_vars

\* ----------------------------------------------------------------------
\* C2: after every sequence of editing operations from the empty diagram the
\* diagram satisfies validate: node ids are unique, edge ids are unique, the
\* source and target node of every edge exist, and the handle ids of every
\* edge are handles of the kind of the node they name.
C2_Validate ==
    /\ \A i, j \in DOMAIN nodes : nodes[i].id = nodes[j].id => i = j
    /\ \A i, j \in DOMAIN edges : edges[i].id = edges[j].id => i = j
    /\ \A i \in DOMAIN edges :
          /\ edges[i].source \in NodeIds
          /\ edges[i].target \in NodeIds
          /\ edges[i].sourceHandle \in HandlesFor(NodeOf(edges[i].source).type)
          /\ edges[i].targetHandle \in HandlesFor(NodeOf(edges[i].target).type)

\* ----------------------------------------------------------------------
\* C3: a connect in which the source handle is no handle of the source
\* node's kind, or the target handle none of the target node's kind, creates
\* no edge: the edges after it are the edges before it.
C3_InvalidHandleRejected ==
    [][ \A params \in Connections :
           ( /\ onConnect(params)
             /\ \/ params.sourceHandle \notin HandlesFor(NodeOf(params.source).type)
                \/ params.targetHandle \notin HandlesFor(NodeOf(params.target).type) )
           => edges' = edges ]_vars

\* ----------------------------------------------------------------------
\* C8: an edge created by connect as a dependency has the dependency kind
\* include, unless the caller asked for extend, and then it has extend; an
\* edge created as an association has no dependency kind.
C8_DependencyKind ==
    [][ \A params \in Connections :
           (onConnect(params) /\ Len(edges') = Len(edges) + 1)
           => LET e == edges'[Len(edges')]
              IN  IF selectedEdgeType = "dependency"
                  THEN e.dataType = IF params.data = Some("extend")
                                    THEN Some("extend") ELSE Some("include")
                  ELSE e.dataType = Absent ]_vars

\* ----------------------------------------------------------------------
\* C9 as stated: a connect as an association between a valid source handle
\* of one node and a valid target handle of another adds exactly one edge,
\* an association with no label between these handles, and leaves the nodes
\* as they are.
C9_ValidConnection(params) ==
    /\ selectedEdgeType = "association"
    /\ params.source # params.target
    /\ params.sourceHandle \in HandlesFor(NodeOf(params.source).type)
    /\ params.targetHandle \in HandlesFor(NodeOf(params.target).type)

\* The edges after onConnect(params) are the edges before it and one more.
C9_OneEdgeAdded(params, after) ==
    /\ Len(after) = Len(edges) + 1
    /\ SubSeq(after, 1, Len(edges)) = edges
    /\ LET e == after[Len(after)]
       IN  /\ e.type = "association"
           /\ e.label = Absent
           /\ e.source = params.source
           /\ e.target = params.target
           /\ e.sourceHandle = params.sourceHandle
           /\ e.targetHandle = params.targetHandle

C9_NodesKept ==
    [][ nodes' = nodes \/ ~(\E params \in Connections : onConnect(params)) ]_vars

C9_AlwaysAddsOneEdge ==
    /\ [](\A params \in Connections :
             C9_ValidConnection(params) =>
                C9_OneEdgeAdded(params, onConnectEdges(params)))
    /\ C9_NodesKept

\* C9 as amended: it adds that one edge unless an edge between the same two
\* nodes and the same two handles is already there, and then it changes
\* neither the edges nor the nodes.
C9_Connected(params) ==
    \E i \in DOMAIN edges :
        /\ edges[i].source = params.source
        /\ edges[i].target = params.target
        /\ edges[i].sourceHandle = params.sourceHandle
        /\ edges[i].targetHandle = params.targetHandle

C9_AddsOneEdgeUnlessConnected ==
    /\ [](\A params \in Connections :
             C9_ValidConnection(params) =>
                IF C9_Connected(params)
                THEN onConnectEdges(params) = edges
                ELSE C9_OneEdgeAdded(params, onConnectEdges(params)))
    /\ C9_NodesKept

\* The scenario: an actor, a use case and the association between them.
C9_Witness ==
    /\ Len(nodes) = 2
    /\ nodes[1].type = "actor"
    /\ nodes[2].type = "usecase"
    /\ Len(edges) = 1
    /\ edges[1].type = "association"
    /\ edges[1].label = Absent
    /\ edges[1].source = nodes[1].id
    /\ edges[1].sourceHandle = "right-source"
    /\ edges[1].target = nodes[2].id
    /\ edges[1].targetHandle = "left-target"

\* ----------------------------------------------------------------------
\* C10 as stated: actor and use case nodes have a source and a target handle
\* on all four sides, system boundary nodes on the left and the right only.
C10_FourSides ==
    {"top-source", "top-target", "bottom-source", "bottom-target",
     "left-source", "left-target", "right-source", "right-target"}

C10_LeftRight ==
    {"left-source", "left-target", "right-source", "right-target"}

C10_ActorHasFourSides ==
    \A i \in DOMAIN nodes :
        /\ nodes[i].type \in {"actor", "usecase"} => HandlesFor(nodes[i].type) = C10_FourSides
        /\ nodes[i].type = "system" => HandlesFor(nodes[i].type) = C10_LeftRight

\* C10 as amended: use case nodes have them on all four sides, actor nodes
\* and system boundary nodes on the left and the right only.
C10_HandlesByKind ==
    \A i \in DOMAIN nodes :
        /\ nodes[i].type = "usecase" => HandlesFor(nodes[i].type) = C10_FourSides
        /\ nodes[i].type \in {"actor", "system"} => HandlesFor(nodes[i].type) = C10_LeftRight

C10_Witness ==
    /\ \E i \in DOMAIN nodes : nodes[i].type = "actor"
    /\ \E i \in DOMAIN nodes : nodes[i].type = "usecase"

\* ----------------------------------------------------------------------
\* C4: committing a node label edit with text t sets the label to trim(t)
\* when trim(t) is non-empty and differs from the label, and leaves it as it
\* is otherwise; so the label of every node dropped from the palette is a
\* non-empty trimmed string, whatever is started, typed, committed and
\* cancelled.
C4_CommitSetsTrimmed ==
    [][ \A i \in DOMAIN nodes :
           LabelSave(i) =>
              LET t == Trim(nodes[i].editValue)
              IN  nodes'[i].label =
                     IF t # <<>> /\ t # nodes[i].label THEN t ELSE nodes[i].label ]_vars

C4_LabelsNonEmptyTrimmed ==
    \A i \in DOMAIN nodes :
        /\ nodes[i].label # <<>>
        /\ Head(nodes[i].label) # Blank
        /\ nodes[i].label[Len(nodes[i].label)] # Blank

C4_NodeLabel == []C4_LabelsNonEmptyTrimmed /\ C4_CommitSetsTrimmed

\* A node relabelled "New" by a commit of " New ".
C4_Witness ==
    \E i \in DOMAIN nodes :
        /\ nodes[i].label = <<"New">>
        /\ nodes[i].editValue = <<" ", "New", " ">>
        /\ ~nodes[i].isEditing

\* ----------------------------------------------------------------------
\* C5: committing an edge label edit whose trimmed text is empty, or is the
\* label the edge has, leaves the stored label of the edge as it is.
C5_EmptyCommitKeepsEdgeLabel ==
    [][ \A i \in DOMAIN edges :
           ( /\ EdgeLabelSave(i)
             /\ \/ Trim(edges[i].editValue) = <<>>
                \/ Trim(edges[i].editValue) = DisplayLabel(edges[i]) )
           => /\ Len(edges') = Len(edges)
              /\ edges'[i].label = edges[i].label ]_vars

\* ----------------------------------------------------------------------
\* C6: an edit session is entered only by a double click, which fills the
\* buffer with the label of the element as it is shown, and is left only by
\* a commit or by Escape; starting, typing and cancelling change no node and
\* no edge of the diagram, and Escape puts the label shown back into the
\* buffer.
C6_Node(n) ==
    [id |-> n.id, type |-> n.type, label |-> n.label,
     position |-> n.position, selected |-> n.selected]

C6_Edge(e) ==
    [id |-> e.id, type |-> e.type, source |-> e.source, target |-> e.target,
     sourceHandle |-> e.sourceHandle, targetHandle |-> e.targetHandle,
     dataType |-> e.dataType, label |-> e.label, selected |-> e.selected]

C6_Diagram(ns, es) ==
    << [i \in DOMAIN ns |-> C6_Node(ns[i])], [i \in DOMAIN es |-> C6_Edge(es[i])],
       nodeIdCounter, selectedEdgeType >>

C6_DiagramKept ==
    /\ C6_Diagram(nodes', edges') = C6_Diagram(nodes, edges)
    /\ nodeIdCounter' = nodeIdCounter
    /\ selectedEdgeType' = selectedEdgeType

C6_NodeSessions ==
    /\ Len(nodes') > Len(nodes) => ~nodes'[Len(nodes')].isEditing
    /\ Len(nodes') = Len(nodes) =>
          \A i \in DOMAIN nodes :
             /\ (~nodes[i].isEditing /\ nodes'[i].isEditing) =>
                   /\ LabelDoubleClick(i)
                   /\ nodes'[i].editValue = nodes[i].label
             /\ (nodes[i].isEditing /\ ~nodes'[i].isEditing) =>
                   LabelSave(i) \/ LabelEscape(i)
             /\ (LabelDoubleClick(i) \/ \E t \in NodeTexts : LabelChange(i, t)) =>
                   C6_DiagramKept
             /\ LabelEscape(i) =>
                   /\ C6_DiagramKept
                   /\ nodes'[i].editValue = nodes[i].label

C6_EdgeSessions ==
    /\ Len(edges') > Len(edges) => ~edges'[Len(edges')].isEditing
    /\ Len(edges') = Len(edges) =>
          \A i \in DOMAIN edges :
             /\ (~edges[i].isEditing /\ edges'[i].isEditing) =>
                   /\ EdgeLabelDoubleClick(i)
                   /\ edges'[i].editValue = DisplayLabel(edges[i])
             /\ (edges[i].isEditing /\ ~edges'[i].isEditing) =>
                   EdgeLabelSave(i) \/ EdgeLabelEscape(i)
             /\ (EdgeLabelDoubleClick(i) \/ \E t \in EdgeTexts : EdgeLabelChange(i, t)) =>
                   C6_DiagramKept
             /\ EdgeLabelEscape(i) =>
                   /\ C6_DiagramKept
                   /\ edges'[i].editValue = DisplayLabel(edges[i])

C6_EditSessions == [][C6_NodeSessions /\ C6_EdgeSessions]_vars

\* A node relabelled in a session that was committed, and an edge in a
\* session with its text deleted and nothing stored.
C6_Witness ==
    /\ \E i \in DOMAIN nodes :
          /\ ~nodes[i].isEditing
          /\ nodes[i].editValue = <<" ", "New", " ">>
          /\ nodes[i].label = <<"New">>
    /\ \E i \in DOMAIN edges :
          /\ edges[i].isEditing
          /\ edges[i].editValue = <<>>
          /\ edges[i].label = Absent

\* ----------------------------------------------------------------------
\* C7: the guillemet text shown for a dependency edge is never stored by
\* showing or by editing without change: a new edge has no stored label, the
\* stored label of an edge changes only in a commit whose trimmed text
\* differs from the text shown, to that text, and a double click followed by
\* a commit stores nothing.
C7_DerivedLabelNotStored ==
    [][ /\ Len(edges') > Len(edges) => edges'[Len(edges')].label = Absent
        /\ Len(edges') = Len(edges) =>
              /\ \A j \in DOMAIN edges :
                    edges'[j].label # edges[j].label =>
                       \E i \in DOMAIN edges :
                          /\ EdgeLabelSave(i)
                          /\ Trim(edges[i].editValue) # DisplayLabel(edges[i])
                          /\ edges'[j].label = Some(Trim(edges[i].editValue))
              /\ \A i \in DOMAIN edges :
                    (EdgeLabelSave(i) /\ edges[i].editValue = DisplayLabel(edges[i]))
                    => edges'[i].label = edges[i].label ]_vars

\* A dependency edge still without a stored label after the commit of its
\* guillemet text, typed with a blank before it.
C7_Witness ==
    \E i \in DOMAIN edges :
        /\ edges[i].type = "dependency"
        /\ edges[i].label = Absent
        /\ ~edges[i].isEditing
        /\ edges[i].editValue = <<" ", "«", "include", "»">>

\* ----------------------------------------------------------------------
\* C11: in every reachable state the ids of the nodes of the diagram are
\* pairwise different, also when the editor was mounted with initial nodes
\* and when other editors have used the module's counter before.
C11_NodeIdsUnique ==
    \A i, j \in DOMAIN nodes : nodes[i].id = nodes[j].id => i = j

\* ----------------------------------------------------------------------
\* C12: in every reachable state the ids of the edges of the diagram are
\* pairwise different, also when two connects read the same value of the
\* clock.
C12_EdgeIdsUnique ==
    \A i, j \in DOMAIN edges : edges[i].id = edges[j].id => i = j

\* ----------------------------------------------------------------------
\* C13: adding a node appends it: the nodes before the drop are, unchanged
\* and in their order, the nodes after it but the last, which is the one
\* new node, of the kind dropped; and the edges are unchanged.
C13_AddNodeAppends ==
    [][ \A payload \in DragPayloads :
           (payload.type # "" /\ onDrop(payload, DropPosition))
           => /\ Len(nodes') = Len(nodes) + 1
              /\ SubSeq(nodes', 1, Len(nodes)) = nodes
              /\ nodes'[Len(nodes')].type = payload.type
              /\ edges' = edges ]_vars

\* A node dropped onto the diagram of an earlier session, behind its node
\* and with its edge in place.
C13_Witness ==
    /\ Len(nodes) = 2
    /\ nodes[1].id = 1
    /\ nodes[2].id = 2
    /\ nodeIdCounter = 3
    /\ Len(edges) = 1

\* ----------------------------------------------------------------------
\* C14: a move, a relabel or a delete that names a node or an edge which is
\* not, or no longer, in the diagram changes neither the nodes nor the edges
\* and raises no error.
C14_MissingNodeIds == (1..MaxNodeIds) \ NodeIds

C14_MissingEdgeIds == (0..MaxClock) \ { edges[i].id : i \in DOMAIN edges }

C14_Unchanged ==
    /\ \A id \in C14_MissingNodeIds :
          /\ \A text \in NodeTexts : setNodeLabel(nodes, id, Trim(text)) = nodes
          /\ \A position \in Positions : applyPosition(nodes, id, position) = nodes
    /\ \A id \in C14_MissingEdgeIds :
          \A text \in EdgeTexts : setEdgeLabel(edges, id, Trim(text)) = edges

C14_MissingIdsNoOp ==
    /\ []C14_Unchanged
    /\ [][ \/ /\ nodes' = nodes
              /\ edges' = edges
              /\ uncaught' = FALSE
           \/ ~( \/ \E id \in 1..MaxNodeIds, text \in NodeTexts,
                       value \in UnmountedNodeValues :
                          LabelSaveUnmounted(id, text, value)
                 \/ \E id \in 1..MaxNodeIds, position \in Positions :
                          moveNodeUnmounted(id, position)
                 \/ \E id \in 1..MaxNodeIds : removeNodeUnmounted(id)
                 \/ \E id \in 0..MaxClock, text \in EdgeTexts,
                       value \in UnmountedEdgeValues :
                          EdgeLabelSaveUnmounted(id, text, value) ) ]_vars

\* A node was deleted, its id is missing, and a node and an edge remain.
C14_Witness ==
    /\ \E id \in C14_MissingNodeIds : id < nodeIdCounter
    /\ nodes # <<>>
    /\ edges # <<>>

\* ----------------------------------------------------------------------
\* C15: while the editor is read-only no event of the user changes the nodes
\* or the edges.
C15_ReadOnlyKeeps ==
    [][ readOnly => onChangeArgs(nodes', edges') = onChangeArgs(nodes, edges) ]_vars

\* ----------------------------------------------------------------------
\* C16: double-clicking a node shape of the palette adds exactly one node,
\* carrying the default label of the shape, and never fails.
C16_DoubleClickAdds ==
    [][ \A shape \in useCaseShapes :
           ShapeDoubleClick(shape) =>
              /\ Len(nodes') = Len(nodes) + 1
              /\ nodes'[Len(nodes')].label = shape.defaultData[1]
              /\ ~uncaught' ]_vars

\* ----------------------------------------------------------------------
\* C17: after every change of the nodes or the edges onChange has been called
\* with the nodes and the edges as they are after the change, so its last
\* call carries the diagram as it is.
C17_OnChangeCarries == notified = onChangeArgs(nodes, edges)

\* A node was deleted, another added, moved and relabelled, and an edge
\* connected to it.
C17_Witness ==
    /\ nodeIdCounter > 2
    /\ \E i \in DOMAIN nodes :
          /\ nodes[i].id = nodeIdCounter - 1
          /\ nodes[i].position = 1
          /\ nodes[i].label = <<"New">>
          /\ \E j \in DOMAIN edges : edges[j].source = nodes[i].id
    /\ notified = onChangeArgs(nodes, edges)

\* ----------------------------------------------------------------------
\* C18: the workflow moves only from Drafting to Confirming, from Confirming
\* to Generating, Drafting or Failed, from Generating to Editing or Failed
\* and from Failed to Generating; it is in Generating only with an approval
\* given before, and in Editing only with a diagram that passes validate.
WorkflowMoves ==
    { <<"Drafting", "Confirming">>, <<"Confirming", "Generating">>,
      <<"Generating", "Editing">>, <<"Confirming", "Drafting">>,
      <<"Confirming", "Failed">>, <<"Generating", "Failed">>,
      <<"Failed", "Generating">> }

C18_WorkflowMoves ==
    [][ /\ workflowState' # workflowState =>
              <<workflowState, workflowState'>> \in WorkflowMoves
        /\ workflowState' = "Generating" => approvedContext' # Absent
        /\ workflowState' = "Editing" =>
              /\ diagram' \in { Some(payload) : payload \in GenerationPayloads }
              /\ validate(diagram'[1]) = {} ]_vars

\* Editing reached after a revision, an approval, a failure and a retry.
C18_Witness ==
    /\ workflowState = "Editing"
    /\ approvedContext = Some(4)
    /\ Len(conversation) = 5
    /\ conversation[5].status = "FAILED"
    /\ Len(diagram[1].edges) = 1

\* ----------------------------------------------------------------------
\* C19: when the payload fails validate or the request errors, the workflow
\* becomes Failed, an ASSISTANT message with the status FAILED is appended to
\* the conversation and the diagram stays as it was.
C19_Rejected ==
    /\ workflowState' = "Failed"
    /\ Len(conversation') = Len(conversation) + 1
    /\ SubSeq(conversation', 1, Len(conversation)) = conversation
    /\ conversation'[Len(conversation')].role = "ASSISTANT"
    /\ conversation'[Len(conversation')].status = "FAILED"
    /\ diagram' = diagram

C19_Accepted ==
    /\ workflowState' = "Editing"
    /\ diagram' # Absent
    /\ validate(diagram'[1]) = {}

C19_NeverPartlyApplied ==
    [][ /\ (workflowState = "Generating" /\ workflow' # workflow) =>
              C19_Accepted \/ C19_Rejected
        /\ (workflowState = "Confirming" /\ workflowState' = "Failed") =>
              C19_Rejected ]_vars

\* A failure after the diagram was created: the diagram is still empty.
C19_Witness ==
    /\ workflowState = "Failed"
    /\ diagram = Some(EmptyContent)
    /\ conversation[Len(conversation)].role = "ASSISTANT"
    /\ conversation[Len(conversation)].status = "FAILED"

\* ----------------------------------------------------------------------
\* C20: in every step the conversation before the step is a prefix of the
\* conversation after it.
C20_ConversationPrefix ==
    [][ /\ Len(conversation') >= Len(conversation)
        /\ SubSeq(conversation', 1, Len(conversation)) = conversation ]_vars

\* C20, amended: no step removes a message or alters the id, the role or the
\* content of one; of an earlier message only the status changes, and only
\* from PENDING to COMPLETED.
C20_ConversationKept ==
    [][ /\ Len(conversation') >= Len(conversation)
        /\ \A i \in DOMAIN conversation :
              \/ conversation'[i] = conversation[i]
              \/ /\ conversation[i].status = "PENDING"
                 /\ conversation'[i] = [conversation[i] EXCEPT !.status = "COMPLETED"] ]_vars

\* Messages were completed and a failure was appended after them.
C20_Witness ==
    /\ Len(conversation) >= 4
    /\ conversation[1].role = "USER"
    /\ conversation[1].status = "COMPLETED"
    /\ conversation[3].role = "ASSISTANT"
    /\ conversation[3].status = "FAILED"
    /\ conversation[4].status = "FAILED"

\* ----------------------------------------------------------------------
\* C21: at most one generation request is in flight; a request to start a
\* generation during Generating sends none and the workflow stays in
\* Generating; once the user has navigated away no response changes the
\* workflow state or the diagram.
C21_OneRequestInFlight ==
    /\ [](inFlight <= 1)
    /\ [](workflowState = "Generating" /\ ~left => inFlight = 1)
    /\ [][ left => workflowState' = workflowState /\ diagram' = diagram ]_vars

\* An abandoned request was settled after a retry: the workflow is still in
\* Generating and the diagram still empty.
C21_Witness ==
    /\ left
    /\ inFlight = 0
    /\ workflowState = "Generating"
    /\ diagram = Some(EmptyContent)
    /\ \E i \in DOMAIN conversation : conversation[i].status = "FAILED"

\* ----------------------------------------------------------------------
\* C22: when the clock moves on, and with it the debounce window, after edits that are not stored yet
\* (two moves of a node, say), exactly one write is handed to the store and
\* it carries the diagram as it is then, so the position moved to last.
C22_OneWritePerWindow ==
    [][ (now' # now /\ stored # DiagramContent) =>
           /\ Len(writes') = Len(writes) + 1
           /\ writes'[Len(writes')] = DiagramContent ]_vars

\* ----------------------------------------------------------------------
\* C23: no state handed to onChange is dropped: once the clock has moved on,
\* and with it the debounce window, the content stored is the latest diagram, or a write of a state
\* not stored yet is under way.
C23_LatestIsPersisted ==
    [][ now' # now =>
           \/ stored' = DiagramContent'
           \/ writes' # <<>> /\ writes'[Len(writes')] # stored' ]_vars

\* ----------------------------------------------------------------------
\* C24: an association edge whose label is absent or empty has an absent or
\* empty label after every step.
NoLabel(e) == e.label = Absent \/ e.label = Some(<<>>)

SameEdge(e, f) ==
    /\ e.id = f.id
    /\ e.type = f.type
    /\ e.source = f.source /\ e.target = f.target
    /\ e.sourceHandle = f.sourceHandle /\ e.targetHandle = f.targetHandle

C24_AssociationStaysUnlabelled ==
    [][ \A i \in DOMAIN edges :
           (edges[i].type = "association" /\ NoLabel(edges[i])) =>
              \A j \in DOMAIN edges' :
                 SameEdge(edges[i], edges'[j]) => NoLabel(edges'[j]) ]_vars

\* ----------------------------------------------------------------------
\* C25: association is selected at first; an edge added by a step has the
\* type selected before the step, with include as its kind if that is
\* dependency; a step that changes the selected type changes no edge, and no
\* step changes the type or the kind of an edge.
C25_KindAsSelected ==
    /\ selectedEdgeType = "association"
    /\ [][ /\ Len(edges') = Len(edges) + 1 =>
                 /\ edges'[Len(edges')].type = selectedEdgeType
                 /\ edges'[Len(edges')].dataType =
                       IF selectedEdgeType = "dependency"
                       THEN Some("include") ELSE Absent
           /\ selectedEdgeType' # selectedEdgeType =>
                 onChangeArgs(nodes', edges') = onChangeArgs(nodes, edges)
           /\ Len(edges') >= Len(edges) =>
                 \A i \in DOMAIN edges :
                    /\ edges'[i].type = edges[i].type
                    /\ edges'[i].dataType = edges[i].dataType ]_vars

\* A dependency edge in the diagram with association selected again.
C25_Witness ==
    /\ selectedEdgeType = "association"
    /\ \E i \in DOMAIN edges :
          edges[i].type = "dependency" /\ edges[i].dataType = Some("include")

\* ----------------------------------------------------------------------
\* C26: a step that changes a label changes the label of one node or of one
\* edge, and nothing else of any node or edge.
C26_NodeLabelsChanged == { i \in DOMAIN nodes : nodes'[i].label # nodes[i].label }

C26_EdgeLabelsChanged == { i \in DOMAIN edges : edges'[i].label # edges[i].label }

C26_OnlyTheLabel ==
    [][ ( /\ Len(nodes') = Len(nodes)
          /\ Len(edges') = Len(edges)
          /\ C26_NodeLabelsChanged \cup C26_EdgeLabelsChanged # {} ) =>
           /\ Cardinality(C26_NodeLabelsChanged) + Cardinality(C26_EdgeLabelsChanged) = 1
           /\ \A i \in DOMAIN nodes :
                 NodeObject(nodes'[i]) = NodeObject([nodes[i] EXCEPT !.label = nodes'[i].label])
           /\ \A i \in DOMAIN edges :
                 EdgeObject(edges'[i]) = EdgeObject([edges[i] EXCEPT !.label = edges'[i].label]) ]_vars

C28_DropNeedsType ==
    /\ \A payload \in DropPayloads :
          LET after == onDropNodes(payload, DropPosition)
          IN  IF payload.type = ""
              THEN after = nodes
              ELSE /\ Len(after) = Len(nodes) + 1
                   /\ SubSeq(after, 1, Len(nodes)) = nodes
                   /\ after[Len(after)].type = payload.type
                   /\ ~payload.json =>
                         after[Len(after)].label = Capitalize(payload.type)
    /\ \A shape \in useCaseConnections : handleDragStart(shape).type = ""
    /\ \A i \in DOMAIN nodes :
          /\ nodes[i].type \in {"actor", "usecase", "system"}
          /\ nodes[i].label # <<>>

\* A use case dropped with data that is no JSON beside one dragged from the
\* palette.
C28_Witness ==
    /\ Len(nodes) = 2
    /\ nodes[1].label = <<"Use", " ", "Case">>
    /\ nodes[2].type = "usecase"
    /\ nodes[2].label = <<"Usecase">>

\* ----------------------------------------------------------------------
\* C29: the counter never decreases, a node that is added gets the value of
\* the counter as its id and the counter moves past it, and every id in the
\* diagram is below the counter: an id once given is not given again,
\* whatever was deleted since.
C29_IdsNeverReissued ==
    /\ [](\A i \in DOMAIN nodes : nodes[i].id < nodeIdCounter)
    /\ [][ /\ nodeIdCounter' >= nodeIdCounter
           /\ Len(nodes') > Len(nodes) =>
                 /\ nodes'[Len(nodes')].id = nodeIdCounter
                 /\ nodeIdCounter' = nodeIdCounter + 1 ]_vars

\* Two nodes were deleted and the third has the third id.
C29_Witness ==
    /\ Len(nodes) = 1
    /\ nodes[1].id = 3
    /\ nodeIdCounter = 4

\* ----------------------------------------------------------------------
\* C30: no two users share a clerkId or an email, every diagram is of a user
\* and every message of a diagram; a request answered with 500 changes no
\* row; an event of a type that is not handled is answered with success and
\* changes no row.
C30_Integrity ==
    /\ UniqueUsers(users)
    /\ \A d \in diagrams : \E u \in users : u.id = d.userId
    /\ \A m \in messages : \E d \in diagrams : d.id = m.diagramId

C30_WebhookKeepsIntegrity ==
    /\ []C30_Integrity
    /\ [][ \A event \in ClerkWebhookEvents :
              (POST(event) /\ response'.status = 500) =>
                 UNCHANGED <<users, diagrams, messages>> ]_vars
    /\ [][ \A event \in ClerkWebhookEvents :
              (event.type = "session.created" /\ POST(event)) =>
                 /\ response'.status = 200
                 /\ UNCHANGED <<users, diagrams, messages>> ]_vars

====
